---- MODULE Spec2Model ----
(***************************************************************************)
(* Model of the multi-provider deep search of fullstack-hotel-ai:          *)
(* HotelKnowledgeDeepSearch (src/deep_search_system.py).                   *)
(*                                                                         *)
(* Python values are tagged records, so that values of different Python    *)
(* types can be compared: None, str, int, float, bool, list and dict.      *)
(* A Python str is a TLA+ string; a dict is a function from its keys.      *)
(***************************************************************************)
EXTENDS Integers, Sequences, FiniteSets, TLC

----------------------------------------------------------------------------
(* Bounds of the model.                                                    *)

\* Nesting depth at which the JSON scanner's recursion guard trips.  CPython
\* trips it near sys.getrecursionlimit() (1000); the model scales it down.
RecursionLimit == 2

\* How many requests one run of the model serves.
MaxCalls == 2

----------------------------------------------------------------------------
(* Python values.                                                          *)

PyNone == [t |-> "none"]
PyStr(s) == [t |-> "str", v |-> s]
PyInt(n) == [t |-> "int", v |-> n]
PyBool(b) == [t |-> "bool", v |-> b]
\* a float literal, as numerator over denominator: 0.7 is PyFloat(7, 10)
PyFloat(n, d) == [t |-> "float", num |-> n, den |-> d]
PyList(seq) == [t |-> "list", v |-> seq]
PyDict(f) == [t |-> "dict", v |-> f]

EmptyDict == PyDict(<<>>)

\* d[k] = x on a dict
DictSet(d, k, x) == PyDict((k :> x) @@ d.v)

\* k in d
HasKey(d, k) == d.t = "dict" /\ k \in DOMAIN d.v

\* an exception object; str(e) is its msg
Exc(type, msg) == [type |-> type, msg |-> msg]

Return(x) == [kind |-> "return", value |-> x]
Raise(e) == [kind |-> "raise", exc |-> e]

----------------------------------------------------------------------------
(* Strings.                                                                *)

Char(s, i) == SubSeq(s, i, i)

Digits == <<"0", "1", "2", "3", "4", "5", "6", "7", "8", "9">>

IsDigit(c) == \E d \in 1..10 : Digits[d] = c

DigitValue(c) == (CHOOSE d \in 1..10 : Digits[d] = c) - 1

\* needle in hay
Contains(hay, needle) ==
    \E i \in 1..(Len(hay) - Len(needle) + 1) :
        SubSeq(hay, i, i + Len(needle) - 1) = needle

\* s.startswith(p, i) for a 1-based position i
StartsWithAt(s, i, p) ==
    /\ i + Len(p) - 1 <= Len(s)
    /\ SubSeq(s, i, i + Len(p) - 1) = p

\* s + s
Twice(s) == s \o s

RECURSIVE Rep(_, _)
\* c * n, by halving n
Rep(c, n) ==
    IF n <= 0 THEN ""
    ELSE IF n % 2 = 0 THEN Twice(Rep(c, n \div 2))
    ELSE c \o Rep(c, n - 1)

----------------------------------------------------------------------------
(* json.loads, on the JSON texts without whitespace, escapes, signs or     *)
(* fractions: null, true, false, digits, "...", [...] and {...}.           *)
(* A scan result is [st |-> "ok", val, end] (end: the next position),      *)
(* [st |-> "decode"] (JSONDecodeError) or [st |-> "recursion"]             *)
(* (RecursionError out of the scanner's recursion guard).                  *)

ScanOk(val, end) == [st |-> "ok", val |-> val, end |-> end]
ScanDecode == [st |-> "decode"]
ScanRecursion == [st |-> "recursion"]

RECURSIVE ScanDigits(_, _, _)
\* the maximal run of digits from position i, accumulated into acc
ScanDigits(s, i, acc) ==
    IF i <= Len(s) /\ IsDigit(Char(s, i))
    THEN ScanDigits(s, i + 1, 10 * acc + DigitValue(Char(s, i)))
    ELSE ScanOk(PyInt(acc), i)

RECURSIVE ScanStringEnd(_, _)
\* the position of the closing quote at or after i, or 0
ScanStringEnd(s, i) ==
    IF i > Len(s) THEN 0
    ELSE IF Char(s, i) = "\"" THEN i
    ELSE ScanStringEnd(s, i + 1)

\* the string literal from the opening quote at i to the closing one
ScanStringTo(s, i, close) ==
    IF close = 0 THEN ScanDecode
    ELSE ScanOk(PyStr(SubSeq(s, i + 1, close - 1)), close + 1)

\* a string literal whose opening quote is at position i
ScanString(s, i) == ScanStringTo(s, i, ScanStringEnd(s, i + 1))

RECURSIVE scan_once(_, _, _)
RECURSIVE ScanArrayItems(_, _, _, _)
RECURSIVE ScanObjectMembers(_, _, _, _)

\* an array after its item `item`: "]" ends it, "," goes on
ScanArrayAfter(s, depth, items, item) ==
    IF item.st # "ok" THEN item
    ELSE IF item.end > Len(s) THEN ScanDecode
    ELSE IF Char(s, item.end) = "]"
         THEN ScanOk(PyList(Append(items, item.val)), item.end + 1)
    ELSE IF Char(s, item.end) = ","
         THEN ScanArrayItems(s, item.end + 1, depth, Append(items, item.val))
    ELSE ScanDecode

\* the items of an array from position i, after "[" or ","
ScanArrayItems(s, i, depth, items) ==
    ScanArrayAfter(s, depth, items, scan_once(s, i, depth))

\* an object after the member `member` of key `key`: "}" ends it, "," goes on
ScanObjectAfter(s, depth, members, key, member) ==
    IF member.st # "ok" THEN member
    ELSE IF member.end > Len(s) THEN ScanDecode
    ELSE IF Char(s, member.end) = "}"
         THEN ScanOk(DictSet(members, key, member.val), member.end + 1)
    ELSE IF Char(s, member.end) = ","
         THEN ScanObjectMembers(s, member.end + 1, depth,
                                DictSet(members, key, member.val))
    ELSE ScanDecode

\* an object after the key `key` of its next member: ":" and a value follow
ScanObjectValue(s, depth, members, key) ==
    IF key.st # "ok" THEN key
    ELSE IF key.end > Len(s) THEN ScanDecode
    ELSE IF Char(s, key.end) # ":" THEN ScanDecode
    ELSE ScanObjectAfter(s, depth, members, key.val.v,
                         scan_once(s, key.end + 1, depth))

\* the members of an object from position i, after "{" or ","
ScanObjectMembers(s, i, depth, members) ==
    IF i > Len(s) THEN ScanDecode
    ELSE IF Char(s, i) # "\"" THEN ScanDecode
    ELSE ScanObjectValue(s, depth, members, ScanString(s, i))

\* a container whose opening bracket c is at position i
ScanContainer(s, i, depth, c) ==
    IF depth + 1 > RecursionLimit THEN ScanRecursion
    ELSE IF i + 1 > Len(s) THEN ScanDecode
    ELSE IF c = "{"
         THEN IF Char(s, i + 1) = "}"
              THEN ScanOk(EmptyDict, i + 2)
              ELSE ScanObjectMembers(s, i + 1, depth + 1, EmptyDict)
         ELSE IF Char(s, i + 1) = "]"
              THEN ScanOk(PyList(<<>>), i + 2)
              ELSE ScanArrayItems(s, i + 1, depth + 1, <<>>)

\* the JSON value that starts with the character c at position i
ScanValue(s, i, depth, c) ==
    IF c = "\"" THEN ScanString(s, i)
    ELSE IF c = "{" \/ c = "[" THEN ScanContainer(s, i, depth, c)
    ELSE IF StartsWithAt(s, i, "null") THEN ScanOk(PyNone, i + 4)
    ELSE IF StartsWithAt(s, i, "true") THEN ScanOk(PyBool(TRUE), i + 4)
    ELSE IF StartsWithAt(s, i, "false") THEN ScanOk(PyBool(FALSE), i + 5)
    ELSE IF IsDigit(c) THEN ScanDigits(s, i, 0)
    ELSE ScanDecode

\* one JSON value from position i; depth counts the enclosing containers
scan_once(s, i, depth) ==
    IF i > Len(s) THEN ScanDecode ELSE ScanValue(s, i, depth, Char(s, i))

JSONDecodeError == Exc("JSONDecodeError", "Expecting value")

RecursionError ==
    Exc("RecursionError",
        "maximum recursion depth exceeded while decoding a JSON array from a unicode string")

\* what json.loads(s) makes of the scan r of s: trailing text is an error
LoadsResult(s, r) ==
    IF r.st = "recursion" THEN Raise(RecursionError)
    ELSE IF r.st = "decode" THEN Raise(JSONDecodeError)
    ELSE IF r.end # Len(s) + 1 THEN Raise(JSONDecodeError)
    ELSE Return(r.val)

\* json.loads(s): the value, or the exception it raises
json_loads(s) == LoadsResult(s, scan_once(s, 1, 0))

----------------------------------------------------------------------------
(* The response normalizer.                                                *)

\* The length past which the summary is cut.
SummaryLimit == 200

\* the normalizer with the ellipsis appended whatever the length
parse_llm_response_AlwaysEllipsis(response) ==
    PyDict([
        status |-> PyStr("parsed"),
        results |-> PyList(<<PyDict([
            category |-> PyStr("general"),
            subcategory |-> PyStr("information_extracted"),
            data |-> PyStr(response),
            confidence |-> PyFloat(7, 10),
            source |-> PyStr("llm_response"),
            relevance_score |-> PyFloat(6, 10),
            additional_context |-> PyStr("Parsed from text response")])>>),
        summary |-> PyStr((IF Len(response) > SummaryLimit
                           THEN SubSeq(response, 1, SummaryLimit)
                           ELSE response) \o "..."),
        total_matches |-> PyInt(1),
        search_metadata |-> PyDict([
            query_analysis |-> PyStr("general_text_search"),
            search_strategy |-> PyStr("llm_parsing"),
            processing_time |-> PyStr("fallback_method")])])

\* the normalizer cutting at SummaryLimit characters already (>= for >)
parse_llm_response_CutAtLimit(response) ==
    PyDict([parse_llm_response_AlwaysEllipsis(response).v EXCEPT
        !.summary = PyStr(IF Len(response) >= SummaryLimit
                          THEN SubSeq(response, 1, SummaryLimit) \o "..."
                          ELSE response)])

\* the normalizer reporting no finding for the empty text
parse_llm_response_EmptyHasNoFinding(response) ==
    PyDict([parse_llm_response_AlwaysEllipsis(response).v EXCEPT
        !.summary = PyStr(IF Len(response) > SummaryLimit
                          THEN SubSeq(response, 1, SummaryLimit) \o "..."
                          ELSE response),
        !.results = IF response = "" THEN PyList(<<>>) ELSE @,
        !.total_matches = IF response = "" THEN PyInt(0) ELSE @])

_parse_llm_response(response) ==
    PyDict([
        status |-> PyStr("parsed"),
        results |-> PyList(<<PyDict([
            category |-> PyStr("general"),
            subcategory |-> PyStr("information_extracted"),
            data |-> PyStr(response),
            confidence |-> PyFloat(7, 10),
            source |-> PyStr("llm_response"),
            relevance_score |-> PyFloat(6, 10),
            additional_context |-> PyStr("Parsed from text response")])>>),
        summary |-> PyStr(IF Len(response) > SummaryLimit
                          THEN SubSeq(response, 1, SummaryLimit) \o "..."
                          ELSE response),
        total_matches |-> PyInt(1),
        search_metadata |-> PyDict([
            query_analysis |-> PyStr("general_text_search"),
            search_strategy |-> PyStr("llm_parsing"),
            processing_time |-> PyStr("fallback_method")])])

----------------------------------------------------------------------------
(* Prompts.  An f-string is modelled by the name of its template (its      *)
(* static text) together with the values formatted into it.                *)

\* the category prompt of one _search_* function, built from the query
LayerPrompt(template, query) == [template |-> template, query |-> query]

\* enhanced_prompt of _execute_search, built from prompt and search_type
EnhancedPrompt(prompt, search_type) ==
    [template |-> "enhanced", prompt |-> prompt, search_type |-> search_type]

\* the synthesis prompt built from the query alone
SynthesisPrompt_QueryOnly(query, results) ==
    [template |-> "synthesis", query |-> query, results_json |-> EmptyDict]

\* synthesis_prompt of deep_search_hotel_data, built from the query and
\* json.dumps(results, indent=2, default=str)
SynthesisPrompt(query, results) ==
    [template |-> "synthesis", query |-> query, results_json |-> results]

\* one invocation of a provider: llm.invoke(prompt)
Call(llm, prompt) == [llm |-> llm, prompt |-> prompt]

----------------------------------------------------------------------------
(* The providers.  A provider call either raises or returns a response     *)
(* object with a content text; what it does is the environment's choice.   *)

GroqFailures == {"groq: request timed out"}
GeminiFailures == {"gemini: quota exceeded"}

JsonSuccessText == "{\"status\":\"success\"}"
DeepText == Rep("[", RecursionLimit + 1)

\* the texts a provider may answer with: structured JSON, JSON that is no
\* record, free text, and a text nested deeper than the scanner recurses
Contents == {JsonSuccessText, "null", "hello", DeepText}

Response(content) == [content |-> content]

GroqOutcomes ==
    {Raise(Exc("Exception", m)) : m \in GroqFailures}
        \cup {Return(Response(c)) : c \in Contents}

GeminiOutcomes ==
    {Raise(Exc("Exception", m)) : m \in GeminiFailures}
        \cup {Return(Response(c)) : c \in Contents}

----------------------------------------------------------------------------
(* _execute_search.  groq and gemini are what the two providers do when    *)
(* invoked; the result is [out, calls]: what the function returns or       *)
(* raises, and the provider invocations it made, in order.                 *)

\* str(e) as CPython 3.11 and later word it
UnboundLocalError ==
    Exc("UnboundLocalError",
        "cannot access local variable 'fallback_response' where it is not associated with a value")

\* lines 287-289 and 298-299: what the try around json.loads makes of its
\* outcome: the normalizer on JSONDecodeError, any other exception propagates
HandleDecodeError(content, parsed) ==
    IF parsed.kind = "return" THEN parsed
    ELSE IF parsed.exc.type = "JSONDecodeError"
         THEN Return(_parse_llm_response(content))
    ELSE parsed

\* json.loads(content) with no handler of JSONDecodeError around it
ParseContent_NoDecodeHandler(content) == json_loads(content)

\* the content wrapped by the normalizer without json.loads being tried
ParseContent_AlwaysNormalize(content) == Return(_parse_llm_response(content))

\* lines 283-289 and 295-299: try json.loads(content), except
\* json.JSONDecodeError normalize it
ParseContent(content) == HandleDecodeError(content, json_loads(content))

\* the handler of e2 reporting the primary's failure beside the secondary's
TerminalError_BothMessages(e, e2, gemini) ==
    IF gemini.kind = "raise"
    THEN Raise(UnboundLocalError)
    ELSE Return(PyDict([
            status |-> PyStr("error"),
            error |-> PyStr("Both LLMs failed: " \o e.msg \o ", " \o e2.msg),
            raw_response |-> PyStr(gemini.value.content)]))

\* the handler of e2 with str(e2) as raw_response whatever the response
TerminalError_ErrorAsRaw(e, e2, gemini) ==
    IF gemini.kind = "raise"
    THEN Raise(UnboundLocalError)
    ELSE Return(PyDict([
            status |-> PyStr("error"),
            error |-> PyStr("Search failed: " \o e2.msg),
            raw_response |-> PyStr(e2.msg)]))

\* lines 300-306: the handler of e2.  gemini is the outcome of the invoke:
\* when the invoke itself raised, fallback_response was never assigned and
\* reading it raises UnboundLocalError
TerminalError(e, e2, gemini) ==
    IF gemini.kind = "raise"
    THEN Raise(UnboundLocalError)
    ELSE Return(PyDict([
            status |-> PyStr("error"),
            error |-> PyStr("Search failed: " \o e2.msg),
            raw_response |-> PyStr(gemini.value.content)]))

\* lines 293-306: the inner try, r being what the Gemini call and the
\* parsing of its content came to
GeminiResult(e, gemini, r) ==
    IF r.kind = "return" THEN r ELSE TerminalError(e, r.exc, gemini)

\* lines 291-306: the handler of e, which falls back to Gemini
GeminiFallback(e, enhanced_prompt, gemini) ==
    [out |-> GeminiResult(e, gemini,
                 IF gemini.kind = "raise" THEN gemini
                 ELSE ParseContent(gemini.value.content)),
     calls |-> <<Call("gemini", enhanced_prompt)>>]

\* the Groq call followed by the fallback f and by a second Groq call
AfterGroq_Retry(enhanced_prompt, f) ==
    [out |-> f.out,
     calls |-> <<Call("groq", enhanced_prompt)>> \o f.calls
                   \o <<Call("groq", enhanced_prompt)>>]

\* the Groq call followed by the fallback f
AfterGroq(enhanced_prompt, f) ==
    [out |-> f.out, calls |-> <<Call("groq", enhanced_prompt)>> \o f.calls]

\* lines 279-306: r being what the Groq call and the parsing of its content
\* came to
GroqResult(enhanced_prompt, gemini, r) ==
    IF r.kind = "return"
    THEN [out |-> r, calls |-> <<Call("groq", enhanced_prompt)>>]
    ELSE AfterGroq(enhanced_prompt, GeminiFallback(r.exc, enhanced_prompt, gemini))

_execute_search(prompt, search_type, groq, gemini) ==
    GroqResult(EnhancedPrompt(prompt, search_type), gemini,
               IF groq.kind = "raise" THEN groq
               ELSE ParseContent(groq.value.content))

----------------------------------------------------------------------------
(* The five category searches.  Each builds its prompt from the query and  *)
(* calls _execute_search inside try/except Exception.                      *)

\* lines 118-119 (and 146-147, 174-175, 203-204, 232-233):
\* except Exception as e: return {'error': str(e)}
CatchToErrorDict(out) ==
    IF out.kind = "raise"
    THEN Return(PyDict([error |-> PyStr(out.exc.msg)]))
    ELSE out

\* what a _search_* function returns, r being its _execute_search call
LayerResult(r) == [out |-> CatchToErrorDict(r.out), calls |-> r.calls, exec |-> r]

\* the body shared by the five _search_* functions
SearchLayer(template, search_type, query, groq, gemini) ==
    LayerResult(_execute_search(LayerPrompt(template, query), search_type,
                                groq, gemini))

_search_booking_data(query, groq, gemini) ==
    SearchLayer("booking", "booking_search", query, groq, gemini)

_search_financial_data(query, groq, gemini) ==
    SearchLayer("financial", "financial_search", query, groq, gemini)

_search_guest_data(query, groq, gemini) ==
    SearchLayer("guest", "guest_search", query, groq, gemini)

_search_staff_data(query, groq, gemini) ==
    SearchLayer("staff", "staff_search", query, groq, gemini)

_search_policies_procedures(query, groq, gemini) ==
    SearchLayer("policies", "policy_search", query, groq, gemini)

\* search_func.__name__ of the entries of search_layers, in order
search_layers ==
    <<"_search_booking_data", "_search_financial_data", "_search_guest_data",
      "_search_staff_data", "_search_policies_procedures">>

NumLayers == Len(search_layers)

\* search_func(query) for the n-th entry of search_layers
CallLayer(n, query, groq, gemini) ==
    CASE n = 1 -> _search_booking_data(query, groq, gemini)
      [] n = 2 -> _search_financial_data(query, groq, gemini)
      [] n = 3 -> _search_guest_data(query, groq, gemini)
      [] n = 4 -> _search_staff_data(query, groq, gemini)
      [] n = 5 -> _search_policies_procedures(query, groq, gemini)

\* f'layer_{i+1}_{search_func.__name__}', n being i+1
LayerKey(n) == "layer_" \o ToString(n) \o "_" \o search_layers[n]

\* the loop body rebinding results to a fresh dict instead of adding to it
StoreLayerResult_Rebind(res, n, out) ==
    IF out.kind = "return"
    THEN DictSet(EmptyDict, LayerKey(n), out.value)
    ELSE DictSet(EmptyDict, LayerKey(n), PyDict([error |-> PyStr(out.exc.msg)]))

\* lines 54-60: the body of the loop over search_layers, given what
\* search_func(query) returned or raised
StoreLayerResult(res, n, out) ==
    IF out.kind = "return"
    THEN DictSet(res, LayerKey(n), out.value)
    ELSE DictSet(res, LayerKey(n), PyDict([error |-> PyStr(out.exc.msg)]))

----------------------------------------------------------------------------
(* The synthesis of deep_search_hotel_data, lines 80-88.                   *)

\* the synthesis entry naming the secondary's failure only
SynthesisError_SecondaryOnly(e, e2) ==
    PyDict([error |-> PyStr("Search failed: " \o e2.msg)])

\* line 88: the synthesis entry when both providers raised
SynthesisError(e, e2) ==
    PyDict([error |-> PyStr("Both LLMs failed: " \o e.msg \o ", " \o e2.msg)])

\* the fallback with no try around the Gemini call
SynthesisFallback_Unguarded(res, e, gemini) ==
    IF gemini.kind = "return"
    THEN Return(DictSet(res, "synthesis", PyStr(gemini.value.content)))
    ELSE Raise(gemini.exc)

\* lines 84-88: the handler of e, which falls back to Gemini
SynthesisFallback(res, e, gemini) ==
    IF gemini.kind = "return"
    THEN Return(DictSet(res, "synthesis", PyStr(gemini.value.content)))
    ELSE Return(DictSet(res, "synthesis", SynthesisError(e, gemini.exc)))

\* lines 80-88: [out, calls], out being the results with their synthesis
\* entry, or the exception that escapes
Synthesize(res, synthesis_prompt, groq, gemini) ==
    IF groq.kind = "return"
    THEN [out |-> Return(DictSet(res, "synthesis", PyStr(groq.value.content))),
          calls |-> <<Call("groq", synthesis_prompt)>>]
    ELSE [out |-> SynthesisFallback(res, groq.exc, gemini),
          calls |-> <<Call("groq", synthesis_prompt), Call("gemini", synthesis_prompt)>>]

\* datetime.now().isoformat() at the n-th reading of the clock
isoformat(n) == "T" \o ToString(n)

\* lines 90-93: stamp the results and return them
Finish(res, q, now) ==
    DictSet(DictSet(res, "search_timestamp", PyStr(isoformat(now))), "query", PyStr(q))

----------------------------------------------------------------------------
(* State.                                                                  *)

VARIABLES
    search_history, \* HotelKnowledgeDeepSearch.search_history
    clock,          \* how often datetime.now() has been read
    pc,             \* where deep_search_hotel_data stands: idle, layers, synthesis
    query,          \* its argument
    i,              \* the number of the category the loop is at (i+1 of the code)
    results,        \* its local dict
    exec,           \* the latest _execute_search invocation of the running request
    synth,          \* the synthesis step of the latest request
    ret,            \* what the latest completed deep_search_hotel_data returned
    completed,      \* how many deep_search_hotel_data calls have completed
    both_raised,    \* the categories of the request in which both providers raised
    all_success,    \* whether every provider call of the request so far returned
                    \* structured JSON of status 'success'
    norm,           \* the calls of _parse_llm_response on their own
    frames,         \* the frames of deep_search_hotel_data calls running interleaved
    http,           \* the requests served by api_server
    mock            \* the requests served by hotel_ai_server and simple_api

vars == <<search_history, clock, pc, query, i, results, exec, synth, ret, completed,
          both_raised, all_success, norm, frames, http, mock>>

\* the variables that a call of deep_search_hotel_data on its own leaves alone
beyond_search == <<norm, frames, http, mock>>

Queries == {"booking room 101 tomorrow", "guest John Doe"}

\* exec, synth or ret before any invocation has been recorded
NoRecord == [valid |-> FALSE]

\* the marker of a provider that was not invoked
NotInvoked == [kind |-> "not_invoked"]

\* what a provider did in an invocation that made the calls `calls`
Seen(llm, outcome, calls) ==
    IF \E k \in 1..Len(calls) : calls[k].llm = llm THEN outcome ELSE NotInvoked

\* parsed, what json.loads came to, is a record of status 'success'
IsSuccessRecord(parsed) ==
    /\ parsed.kind = "return"
    /\ HasKey(parsed.value, "status")
    /\ parsed.value.v.status = PyStr("success")

\* the provider returned a text that is structured JSON of status 'success'
IsSuccessJson(outcome) ==
    /\ outcome.kind = "return"
    /\ IsSuccessRecord(json_loads(outcome.value.content))

\* every provider call among `calls` returned structured JSON of status
\* 'success', groq and gemini being what the two providers do when invoked
CallsAllSucceed(groq, gemini, calls) ==
    \A k \in 1..Len(calls) :
        IsSuccessJson(IF calls[k].llm = "groq" THEN groq ELSE gemini)

Init ==
    /\ search_history = <<>>
    /\ clock = 0
    /\ pc = "idle"
    /\ query = ""
    /\ i = 0
    /\ results = EmptyDict
    /\ exec = NoRecord
    /\ synth = NoRecord
    /\ ret = NoRecord
    /\ completed = 0
    /\ both_raised = {}
    /\ all_success = TRUE
    /\ norm = NoRecord
    /\ frames = NoRecord
    /\ http = NoRecord
    /\ mock = NoRecord

\* lines 37-51: deep_search_hotel_data(q) is entered
Begin(q) ==
    /\ pc = "idle"
    /\ completed < MaxCalls
    /\ pc' = "layers"
    /\ query' = q
    /\ i' = 1
    /\ results' = EmptyDict
    /\ exec' = NoRecord
    /\ synth' = NoRecord
    /\ ret' = NoRecord
    /\ both_raised' = {}
    /\ all_success' = TRUE
    /\ UNCHANGED <<search_history, clock, completed>>
    /\ UNCHANGED beyond_search

\* lines 53-60: one iteration of the loop over search_layers, layer being
\* what search_func(query) came to
LayerDone(groq, gemini, layer) ==
    /\ results' = StoreLayerResult(results, i, layer.out)
    /\ exec' = [valid |-> TRUE,
                layer |-> i,
                groq |-> groq,
                gemini |-> Seen("gemini", gemini, layer.calls),
                calls |-> layer.calls,
                out |-> layer.exec.out]
    /\ both_raised' = IF groq.kind = "raise" /\ gemini.kind = "raise"
                      THEN both_raised \cup {i}
                      ELSE both_raised
    /\ all_success' = (all_success /\ CallsAllSucceed(groq, gemini, layer.calls))
    /\ IF i < NumLayers
       THEN i' = i + 1 /\ pc' = "layers"
       ELSE i' = i /\ pc' = "synthesis"
    /\ UNCHANGED <<search_history, clock, query, synth, ret, completed>>
    /\ UNCHANGED beyond_search

\* lines 53-60: one iteration of the loop over search_layers
LayerStep(groq, gemini) ==
    /\ pc = "layers"
    /\ LayerDone(groq, gemini, CallLayer(i, query, groq, gemini))

\* lines 90-93, after the synthesis s: stamp the results and return them
SynthesisDone(groq, gemini, s) ==
    /\ synth' = [valid |-> TRUE,
                 groq |-> groq,
                 gemini |-> Seen("gemini", gemini, s.calls),
                 calls |-> s.calls]
    /\ IF s.out.kind = "return"
       THEN /\ results' = Finish(s.out.value, query, clock + 1)
            /\ ret' = [valid |-> TRUE, query |-> query, out |-> Return(results')]
            /\ clock' = clock + 1
       ELSE /\ results' = results
            /\ ret' = [valid |-> TRUE, query |-> query, out |-> s.out]
            /\ clock' = clock
    /\ pc' = "idle"
    /\ completed' = completed + 1
    /\ exec' = NoRecord
    /\ all_success' = (all_success /\ CallsAllSucceed(groq, gemini, s.calls))
    /\ UNCHANGED <<search_history, query, i, both_raised>>
    /\ UNCHANGED beyond_search

\* lines 62-93: the synthesis, the stamping and the return
SynthesisStep(groq, gemini) ==
    /\ pc = "synthesis"
    /\ SynthesisDone(groq, gemini,
           Synthesize(results, SynthesisPrompt(query, results), groq, gemini))

Next ==
    \/ \E q \in Queries : Begin(q)
    \/ \E groq \in GroqOutcomes, gemini \in GeminiOutcomes : LayerStep(groq, gemini)
    \/ \E groq \in GroqOutcomes, gemini \in GeminiOutcomes : SynthesisStep(groq, gemini)

Spec == Init /\ [][Next]_vars

----------------------------------------------------------------------------
(* Properties of _execute_search, read off the record `exec` of its latest *)
(* invocation.                                                             *)

GroqRaised == exec.valid /\ exec.groq.kind = "raise"
GroqReturned == exec.valid /\ exec.groq.kind = "return"
GeminiInvoked == exec.valid /\ exec.gemini.kind # "not_invoked"
GeminiRaised == exec.valid /\ exec.gemini.kind = "raise"
GeminiReturned == exec.valid /\ exec.gemini.kind = "return"

\* the status field of a returned record, or None when there is none
StatusOf(value) == IF HasKey(value, "status") THEN value.v.status ELSE PyNone

\* C1: whatever the two providers do, _execute_search returns a record
\* whose status field is not null, and no exception escapes it.
C1_ExecuteReturnsStatus ==
    exec.valid =>
        /\ exec.out.kind = "return"
        /\ StatusOf(exec.out.value) # PyNone

\* C2: when the primary call raises and the secondary call raises too,
\* _execute_search returns a record of status 'error' whose error field
\* contains the failure message of the primary and that of the secondary.
C2_BothFailuresReported ==
    (GroqRaised /\ GeminiRaised) =>
        /\ exec.out.kind = "return"
        /\ StatusOf(exec.out.value) = PyStr("error")
        /\ HasKey(exec.out.value, "error")
        /\ Contains(exec.out.value.v.error.v, exec.groq.exc.msg)
        /\ Contains(exec.out.value.v.error.v, exec.gemini.exc.msg)

\* C3, as claimed: once the primary call has returned a response, the
\* secondary is not invoked, whatever the content of the response.
C3_Original_NoSecondaryAfterAnyResponse ==
    GroqReturned => ~GeminiInvoked

\* json.loads accepts the text or rejects it with JSONDecodeError
DecodesOrDecodeError(text) ==
    LET p == json_loads(text)
    IN  p.kind = "return" \/ p.exc.type = "JSONDecodeError"

\* C3, amended: once the primary call has returned a response whose
\* content json.loads either parses or rejects with JSONDecodeError, the
\* secondary is not invoked: the primary is the only provider call made.
C3_NoSecondaryAfterDecodableResponse ==
    (GroqReturned /\ DecodesOrDecodeError(exec.groq.value.content)) =>
        /\ ~GeminiInvoked
        /\ Len(exec.calls) = 1
        /\ exec.calls[1].llm = "groq"

\* C3 witness: the primary answered free text and nothing more was invoked
C3_Witness ==
    /\ GroqReturned
    /\ exec.groq.value.content = "hello"
    /\ ~GeminiInvoked
    /\ exec.out.kind = "return"

\* C4, as claimed: when the primary call raises and the secondary returns
\* a response, the result is the secondary's parsed JSON, or else the
\* normalized wrapper of its text.
C4_Original_ParsedOrNormalized ==
    (GroqRaised /\ GeminiReturned) =>
        LET text == exec.gemini.value.content
            p == json_loads(text)
        IN  exec.out = IF p.kind = "return" THEN p
                       ELSE Return(_parse_llm_response(text))

\* C4, amended: when the primary call raises and the secondary returns a
\* response, the result is computed from the secondary's output alone: its
\* parsed JSON, the normalized wrapper of its text, or, when parsing the
\* text raises something other than JSONDecodeError, the error record that
\* holds that error's message and the raw text.  Nothing of the primary
\* attempt is in it.
C4_SecondaryOnly ==
    (GroqRaised /\ GeminiReturned) =>
        LET text == exec.gemini.value.content
            p == json_loads(text)
        IN  /\ exec.out =
                 IF p.kind = "return" THEN p
                 ELSE IF p.exc.type = "JSONDecodeError"
                      THEN Return(_parse_llm_response(text))
                 ELSE Return(PyDict([
                        status |-> PyStr("error"),
                        error |-> PyStr("Search failed: " \o p.exc.msg),
                        raw_response |-> PyStr(text)]))
            /\ HasKey(exec.out.value, "error") =>
                 ~Contains(exec.out.value.v.error.v, exec.groq.exc.msg)

\* C4 witness: the primary raised and the secondary's text broke the parser
C4_Witness ==
    /\ GroqRaised
    /\ GeminiReturned
    /\ exec.gemini.value.content = DeepText
    /\ exec.out.kind = "return"
    /\ StatusOf(exec.out.value) = PyStr("error")

\* the outcome of the provider whose response _execute_search works on:
\* the secondary when it was invoked, else the primary
UsedOutcome == IF exec.gemini.kind = "not_invoked" THEN exec.groq ELSE exec.gemini

\* the result is normalize(text), field by field
IsNormalized(out, text) ==
    /\ out = Return(_parse_llm_response(text))
    /\ out.value.v.status = PyStr("parsed")
    /\ Len(out.value.v.results.v) = 1
    /\ out.value.v.results.v[1].v.data = PyStr(text)
    /\ Len(text) <= 200 => out.value.v.summary = PyStr(text)

\* C5, as claimed: whenever the provider whose response is used returns a
\* text that cannot be parsed as JSON, the result is normalize(text).
C5_Original_UnparseableIsNormalized ==
    (exec.valid /\ UsedOutcome.kind = "return"
        /\ json_loads(UsedOutcome.value.content).kind = "raise") =>
            IsNormalized(exec.out, UsedOutcome.value.content)

\* C5, amended: whenever the provider whose response is used returns a text
\* that json.loads rejects with JSONDecodeError, the result is exactly
\* normalize(text): status 'parsed', one Finding whose data is the text, and
\* the text as summary when it has at most 200 characters.
C5_DecodeErrorIsNormalized ==
    (exec.valid /\ UsedOutcome.kind = "return"
        /\ json_loads(UsedOutcome.value.content) = Raise(JSONDecodeError)) =>
            IsNormalized(exec.out, UsedOutcome.value.content)

\* C5 witness: the primary raised, the secondary answered "hello"
C5_Witness ==
    /\ GroqRaised
    /\ GeminiReturned
    /\ exec.gemini.value.content = "hello"
    /\ exec.out.kind = "return"
    /\ exec.out.value.v.summary = PyStr("hello")

----------------------------------------------------------------------------
(* Properties of deep_search_hotel_data, read off `ret`, what the latest   *)
(* completed call returned, and `synth`, its synthesis step.               *)

CategoryKeys ==
    {"layer_1__search_booking_data", "layer_2__search_financial_data",
     "layer_3__search_guest_data", "layer_4__search_staff_data",
     "layer_5__search_policies_procedures"}

Returned == ret.valid /\ ret.out.kind = "return"

\* the entry of category n in the returned aggregate
Entry(n) == ret.out.value.v[LayerKey(n)]

SynthGroqRaised == synth.valid /\ synth.groq.kind = "raise"
SynthGeminiRaised == synth.valid /\ synth.gemini.kind = "raise"

\* C6: whatever the query and whatever the providers do, the record that
\* deep_search_hotel_data returns holds exactly five category entries, one
\* per category, and a synthesis field, beside its timestamp and query.
C6_FiveCategoriesAndSynthesis ==
    ret.valid =>
        /\ ret.out.kind = "return"
        /\ ret.out.value.t = "dict"
        /\ LET keys == DOMAIN ret.out.value.v
           IN  /\ CategoryKeys \subseteq keys
               /\ Cardinality(keys \cap CategoryKeys) = 5
               /\ "synthesis" \in keys
               /\ keys \ CategoryKeys = {"synthesis", "search_timestamp", "query"}

\* C6 witness: a request returned although a category lost both providers
C6_Witness ==
    /\ Returned
    /\ both_raised # {}
    /\ \A n \in both_raised : HasKey(Entry(n), "error")

\* C7: when both providers fail for exactly one category, the entry of that
\* category in the aggregate has status 'error', and the four other
\* categories have their entries.
C7_FailedCategoryHasErrorStatus ==
    (Returned /\ Cardinality(both_raised) = 1) =>
        \A n \in 1..NumLayers :
            /\ LayerKey(n) \in DOMAIN ret.out.value.v
            /\ n \in both_raised => StatusOf(Entry(n)) = PyStr("error")

\* C8: every completed call of deep_search_hotel_data appends one record to
\* search_history: after n completed calls the log has n entries.
C8_HistoryCountsCalls ==
    Len(search_history) = completed

\* C9: the synthesis step invokes the primary first and the secondary only
\* if the primary raised, both with the synthesis prompt; when both raise,
\* the synthesis field is an error record naming both failures and the
\* aggregate is still returned with its five category entries.
C9_SynthesisFallback ==
    (synth.valid /\ ret.valid) =>
        /\ synth.calls[1] = Call("groq", SynthesisPrompt(ret.query, [ret.out.value EXCEPT
                !.v = [k \in CategoryKeys |-> ret.out.value.v[k]]]))
        /\ (synth.gemini.kind # "not_invoked") <=> (synth.groq.kind = "raise")
        /\ Len(synth.calls) = IF synth.groq.kind = "raise" THEN 2 ELSE 1
        /\ Len(synth.calls) = 2 =>
             synth.calls[2] = Call("gemini", synth.calls[1].prompt)
        /\ (SynthGroqRaised /\ SynthGeminiRaised) =>
             /\ ret.out.kind = "return"
             /\ CategoryKeys \subseteq DOMAIN ret.out.value.v
             /\ ret.out.value.v.synthesis.t = "dict"
             /\ DOMAIN ret.out.value.v.synthesis.v = {"error"}
             /\ Contains(ret.out.value.v.synthesis.v.error.v, synth.groq.exc.msg)
             /\ Contains(ret.out.value.v.synthesis.v.error.v, synth.gemini.exc.msg)

\* C9 witness: both providers raised in the synthesis and the call returned
C9_Witness ==
    /\ SynthGroqRaised
    /\ SynthGeminiRaised
    /\ Returned
    /\ HasKey(ret.out.value.v.synthesis, "error")

\* C10: no exception escapes deep_search_hotel_data: whatever fails in the
\* five category calls and in the synthesis, a request under way can always
\* take its next step, and the call ends by returning a record.
C10_AlwaysReturns ==
    /\ ret.valid => (ret.out.kind = "return" /\ ret.out.value.t = "dict")
    /\ pc \in {"layers", "synthesis"} => ENABLED Next

\* C10 witness: every provider call of the request raised, and it returned
C10_Witness ==
    /\ Returned
    /\ both_raised = 1..NumLayers
    /\ SynthGroqRaised
    /\ SynthGeminiRaised

\* C14: when every provider call made during deep_search_hotel_data returns
\* structured JSON of status 'success', the aggregate holds five category
\* entries of status 'success' and a synthesis that is a non-empty string,
\* the text the primary answered the synthesis prompt with.
C14_AllSuccessAggregate ==
    (Returned /\ all_success) =>
        /\ \A n \in 1..NumLayers :
              /\ LayerKey(n) \in DOMAIN ret.out.value.v
              /\ StatusOf(Entry(n)) = PyStr("success")
        /\ Cardinality(DOMAIN ret.out.value.v \cap CategoryKeys) = 5
        /\ ret.out.value.v.synthesis.t = "str"
        /\ Len(ret.out.value.v.synthesis.v) > 0
        /\ ret.out.value.v.synthesis = PyStr(synth.groq.value.content)

\* C14 witness: a request whose six provider calls all returned structured
\* JSON of status 'success' has returned
C14_Witness ==
    /\ Returned
    /\ all_success
    /\ Len(synth.calls) = 1
    /\ ret.query = "booking room 101 tomorrow"

\* the primary attempt of the latest _execute_search failed: the call
\* raised, or parsing its content raised
PrimaryAttemptFailed ==
    \/ GroqRaised
    \/ GroqReturned /\ ParseContent(exec.groq.value.content).kind = "raise"

\* C16: an _execute_search invocation invokes the primary exactly once and
\* first, the secondary at most once and only after the primary attempt has
\* failed, both with the same prompt, and nothing after the secondary.
C16_PrimaryThenSecondaryNoRetry ==
    exec.valid =>
        /\ Len(exec.calls) \in {1, 2}
        /\ exec.calls[1].llm = "groq"
        /\ exec.calls[1].prompt.template = "enhanced"
        /\ exec.calls[1].prompt.prompt.query = query
        /\ Cardinality({k \in 1..Len(exec.calls) : exec.calls[k].llm = "groq"}) = 1
        /\ Cardinality({k \in 1..Len(exec.calls) : exec.calls[k].llm = "gemini"}) <= 1
        /\ Len(exec.calls) = 2 <=> PrimaryAttemptFailed
        /\ Len(exec.calls) = 2 =>
             /\ exec.calls[2].llm = "gemini"
             /\ exec.calls[2].prompt = exec.calls[1].prompt
        /\ GeminiInvoked <=> Len(exec.calls) = 2

\* C16 witness: both attempts failed and the invocation ended after the
\* secondary's
C16_Witness ==
    /\ GroqRaised
    /\ GeminiRaised
    /\ Len(exec.calls) = 2
    /\ exec.out.kind = "raise"

\* the synthesis was issued in this step
SynthesisIssued == synth'.valid /\ synth' # synth

\* C17: the synthesis call is issued once per request, in the step that
\* ends it and only when all five categories have their entry, and its prompt
\* embeds these five entries; it is issued whether or not categories failed,
\* so a request that has returned has had its synthesis call.
C17_SynthesisOnceAfterAllCategories ==
    /\ [](pc \in {"layers", "synthesis"} => ~synth.valid)
    /\ [](ret.valid => synth.valid)
    /\ [][/\ SynthesisIssued =>
               /\ pc = "synthesis"
               /\ pc' = "idle"
               /\ completed' = completed + 1
               /\ DOMAIN results.v = CategoryKeys
               /\ Cardinality({k \in 1..Len(synth'.calls) :
                                  synth'.calls[k].llm = "groq"}) = 1
               /\ \A k \in 1..Len(synth'.calls) :
                     synth'.calls[k].prompt = SynthesisPrompt(query, results)
               /\ DOMAIN synth'.calls[1].prompt.results_json.v = CategoryKeys
          /\ completed' # completed => SynthesisIssued]_vars

\* C17 witness: the synthesis was issued although every category had lost
\* both providers
C17_Witness ==
    /\ synth.valid
    /\ both_raised = 1..NumLayers
    /\ \A k \in CategoryKeys :
          HasKey(synth.calls[1].prompt.results_json.v[k], "error")

\* C18: when the secondary returned a response and parsing its content
\* raised out of _execute_search's inner try, the terminal error record
\* holds the secondary's text under raw_response.
C18_RawResponseIsSecondaryText ==
    (GeminiReturned /\ ParseContent(exec.gemini.value.content).kind = "raise") =>
        /\ exec.out.kind = "return"
        /\ StatusOf(exec.out.value) = PyStr("error")
        /\ HasKey(exec.out.value, "raw_response")
        /\ exec.out.value.v.raw_response = PyStr(exec.gemini.value.content)

\* C18 witness: the primary's text and the secondary's both broke the parser
C18_Witness ==
    /\ GroqReturned
    /\ GeminiReturned
    /\ exec.gemini.value.content = DeepText
    /\ HasKey(exec.out.value, "raw_response")
    /\ exec.out.value.v.raw_response = PyStr(DeepText)

----------------------------------------------------------------------------
(* _parse_llm_response on its own.  A text is drawn, the function is       *)
(* applied to it, and the next text is drawn; `norm` holds the text to     *)
(* come, the latest call (`again`: its text had been normalized before),   *)
(* and the first result seen for every text.                               *)

\* lengths around the limit of the summary
Texts ==
    {"", "hello", JsonSuccessText,
     Rep("a", SummaryLimit - 1), Rep("a", SummaryLimit), Rep("a", SummaryLimit + 1),
     Rep("a", SummaryLimit) \o "b", Rep("ab", SummaryLimit)}

\* self._parse_llm_response(text): a dict display, a slice and len of a str
\* raise nothing
CallNormalizer(text) == Return(_parse_llm_response(text))

InitNormalize ==
    /\ \E t \in Texts : norm = [text |-> t, last |-> NoRecord, first |-> <<>>]
    /\ search_history = <<>>
    /\ clock = 0
    /\ pc = "idle"
    /\ query = ""
    /\ i = 0
    /\ results = EmptyDict
    /\ exec = NoRecord
    /\ synth = NoRecord
    /\ ret = NoRecord
    /\ completed = 0
    /\ both_raised = {}
    /\ all_success = TRUE
    /\ frames = NoRecord
    /\ http = NoRecord
    /\ mock = NoRecord

\* the call on norm.text having come to out, the next text being t
Normalized(out, t) ==
    /\ norm' = [text |-> t,
                last |-> [valid |-> TRUE, text |-> norm.text, out |-> out,
                          again |-> norm.text \in DOMAIN norm.first],
                first |-> IF norm.text \in DOMAIN norm.first
                          THEN norm.first
                          ELSE (norm.text :> out) @@ norm.first]
    /\ UNCHANGED <<search_history, clock, pc, query, i, results, exec, synth, ret,
                   completed, both_raised, all_success, frames, http, mock>>

\* lines 308-330: one call of _parse_llm_response
Normalize(t) == Normalized(CallNormalizer(norm.text), t)

NextNormalize == \E t \in Texts : Normalize(t)

SpecNormalize == InitNormalize /\ [][NextNormalize]_vars

\* the summary field of what the latest call returned
LastSummary == norm.last.out.value.v.summary

\* C11: for every text, the summary that _parse_llm_response produces is the
\* text when it has at most 200 characters, and otherwise its first 200
\* characters followed by '...'.
C11_SummaryCutAt200 ==
    norm.last.valid =>
        /\ norm.last.out.kind = "return"
        /\ Len(norm.last.text) <= 200 => LastSummary = PyStr(norm.last.text)
        /\ Len(norm.last.text) > 200 =>
             /\ LastSummary = PyStr(SubSeq(norm.last.text, 1, 200) \o "...")
             /\ Len(LastSummary.v) = 203

\* C11 witness: a text of 201 characters has been cut, and its last
\* character is gone from the summary
C11_Witness ==
    /\ norm.last.valid
    /\ norm.last.text = Rep("a", 200) \o "b"
    /\ LastSummary = PyStr(Rep("a", 200) \o "...")

\* C12: _parse_llm_response returns for every text, the empty one included,
\* a record of status 'parsed' with exactly one finding, whose data is the
\* text as it is, confidence 0.7, relevance_score 0.6 and source
\* 'llm_response', and with total_matches 1; a call returns what the first
\* call on the same text returned.
C12_NormalizeTotalAndDeterministic ==
    norm.last.valid =>
        /\ norm.last.out.kind = "return"
        /\ LET rec == norm.last.out.value.v
           IN  /\ rec.status = PyStr("parsed")
               /\ Len(rec.results.v) = 1
               /\ rec.results.v[1].v.data = PyStr(norm.last.text)
               /\ rec.results.v[1].v.confidence = PyFloat(7, 10)
               /\ rec.results.v[1].v.relevance_score = PyFloat(6, 10)
               /\ rec.results.v[1].v.source = PyStr("llm_response")
               /\ rec.total_matches = PyInt(1)
        /\ norm.last.text \in DOMAIN norm.first
        /\ norm.last.out = norm.first[norm.last.text]

\* C12 witness: the empty text has been normalized again, other texts
\* having been normalized too
C12_Witness ==
    /\ norm.last.valid
    /\ norm.last.text = ""
    /\ norm.last.again
    /\ Cardinality(DOMAIN norm.first) > 1
    /\ norm.last.out.value.v.results.v[1].v.data = PyStr("")

----------------------------------------------------------------------------
(* deep_search_hotel_data as a function: `script` is what the providers do  *)
(* at each of its six steps (the five categories, then the synthesis) and   *)
(* `now` the reading of the clock.                                          *)

\* what the two providers do, when invoked, at one step of a request
Step(groq, gemini) == [groq |-> groq, gemini |-> gemini]

RECURSIVE RunLayers(_, _, _, _)
\* lines 53-60: the loop over search_layers from its n-th entry on
RunLayers(n, q, script, res) ==
    IF n > NumLayers THEN res
    ELSE RunLayers(n + 1, q, script,
             StoreLayerResult(res, n,
                 CallLayer(n, q, script[n].groq, script[n].gemini).out))

\* lines 90-93 after the synthesis came to out: stamp and return
StampAndReturn(out, q, now) ==
    IF out.kind = "return" THEN Return(Finish(out.value, q, now)) ELSE out

\* lines 62-93, res being the results after the loop
SynthesizeAndReturn(q, res, step, now) ==
    StampAndReturn(
        Synthesize(res, SynthesisPrompt(q, res), step.groq, step.gemini).out,
        q, now)

deep_search_hotel_data(q, script, now) ==
    SynthesizeAndReturn(q, RunLayers(1, q, script, EmptyDict),
                        script[NumLayers + 1], now)

----------------------------------------------------------------------------
(* Calls of deep_search_hotel_data on the one instance running interleaved, *)
(* a step of one call at a time.  frames[r] holds the locals of call r; the *)
(* instance's only mutable attribute is search_history.                     *)

\* the calls that run interleaved
Requests == 1..MaxCalls

\* the same behaviour of the providers at every step of a request
Uniform(groq, gemini) == [n \in 1..(NumLayers + 1) |-> Step(groq, gemini)]

\* the behaviours a and b in turn
Alternating(a, b) == [n \in 1..(NumLayers + 1) |-> IF n % 2 = 1 THEN a[n] ELSE b[n]]

GroqTimeout == Raise(Exc("Exception", "groq: request timed out"))
GeminiQuota == Raise(Exc("Exception", "gemini: quota exceeded"))

\* what the providers may answer to the calls of one request: the primary
\* answers JSON; it raises and the secondary answers free text; both raise;
\* the first and the last in turn
Scripts ==
    {Uniform(Return(Response(JsonSuccessText)), GeminiQuota),
     Uniform(GroqTimeout, Return(Response("hello"))),
     Uniform(GroqTimeout, GeminiQuota),
     Alternating(Uniform(Return(Response(JsonSuccessText)), GeminiQuota),
                 Uniform(GroqTimeout, GeminiQuota))}

\* the frame of a call that has not begun
IdleFrame ==
    [pc |-> "idle", query |-> "", script |-> <<>>, i |-> 0,
     results |-> EmptyDict, now |-> 0, ret |-> NoRecord]

\* an assignment to `results` through the instance, seen by every call
WriteFrame_SharedResults(fr, r, f) ==
    [x \in DOMAIN fr |->
        IF x = r THEN f ELSE [fr[x] EXCEPT !.results = f.results]]

\* line 51 and on: query, i and results are locals of the call, so that an
\* assignment reaches the frame of this call alone
WriteFrame(fr, r, f) == [fr EXCEPT ![r] = f]

InitInterleaved ==
    /\ frames = [r \in Requests |-> IdleFrame]
    /\ search_history = <<>>
    /\ clock = 0
    /\ pc = "idle"
    /\ query = ""
    /\ i = 0
    /\ results = EmptyDict
    /\ exec = NoRecord
    /\ synth = NoRecord
    /\ ret = NoRecord
    /\ completed = 0
    /\ both_raised = {}
    /\ all_success = TRUE
    /\ norm = NoRecord
    /\ http = NoRecord
    /\ mock = NoRecord

\* lines 37-51: call r is entered with the query q
BeginCall(r, q, script) ==
    /\ frames[r].pc = "idle"
    /\ frames' = WriteFrame(frames, r,
                     [pc |-> "layers", query |-> q, script |-> script, i |-> 1,
                      results |-> EmptyDict, now |-> 0, ret |-> NoRecord])
    /\ UNCHANGED <<search_history, clock, pc, query, i, results, exec, synth, ret,
                   completed, both_raised, all_success, norm, http, mock>>

\* lines 53-60: one iteration of the loop of call r, layer being what
\* search_func(query) came to
CallLayerDone(r, layer) ==
    /\ frames' = WriteFrame(frames, r,
                     [frames[r] EXCEPT
                        !.results = StoreLayerResult(@, frames[r].i, layer.out),
                        !.i = IF @ < NumLayers THEN @ + 1 ELSE @,
                        !.pc = IF frames[r].i < NumLayers
                               THEN "layers" ELSE "synthesis"])
    /\ UNCHANGED <<search_history, clock, pc, query, i, results, exec, synth, ret,
                   completed, both_raised, all_success, norm, http, mock>>

\* lines 53-60: one iteration of the loop of call r
CallLayerStep(r) ==
    /\ frames[r].pc = "layers"
    /\ CallLayerDone(r, CallLayer(frames[r].i, frames[r].query,
                                  frames[r].script[frames[r].i].groq,
                                  frames[r].script[frames[r].i].gemini))

\* lines 90-93 of call r, out being what its synthesis came to
CallSynthesisDone(r, out) ==
    /\ frames' = WriteFrame(frames, r,
                     [frames[r] EXCEPT
                        !.results = IF out.kind = "return" THEN out.value ELSE @,
                        !.now = clock + 1,
                        !.ret = [valid |-> TRUE, out |-> out],
                        !.pc = "done"])
    /\ clock' = clock + 1
    /\ UNCHANGED <<search_history, pc, query, i, results, exec, synth, ret,
                   completed, both_raised, all_success, norm, http, mock>>

\* lines 62-93: the synthesis, the stamping and the return of call r
CallSynthesisStep(r) ==
    /\ frames[r].pc = "synthesis"
    /\ CallSynthesisDone(r,
           SynthesizeAndReturn(frames[r].query, frames[r].results,
                               frames[r].script[NumLayers + 1], clock + 1))

NextInterleaved ==
    \/ \E r \in Requests, q \in Queries, script \in Scripts : BeginCall(r, q, script)
    \/ \E r \in Requests : CallLayerStep(r)
    \/ \E r \in Requests : CallSynthesisStep(r)

SpecInterleaved == InitInterleaved /\ [][NextInterleaved]_vars

\* the calls whose frame this step changes
FramesWritten == {r \in Requests : frames'[r] # frames[r]}

\* search_history is what it was, or that with entries appended
HistoryOnlyAppended ==
    /\ Len(search_history') >= Len(search_history)
    /\ SubSeq(search_history', 1, Len(search_history)) = search_history

\* C13: when calls of deep_search_hotel_data run interleaved on the one
\* instance, a step of a call writes the locals of that call alone and
\* nothing shared, search_history being at most appended to; and what a call
\* returns is what deep_search_hotel_data computes from its own query, the
\* provider responses to its own calls and its own reading of the clock,
\* whatever the other calls did meanwhile.
C13_InterleavedCallsIndependent ==
    /\ [](\A r \in Requests :
            frames[r].pc = "done" =>
                /\ frames[r].ret.valid
                /\ frames[r].ret.out =
                     deep_search_hotel_data(frames[r].query, frames[r].script,
                                            frames[r].now))
    /\ [][/\ Cardinality(FramesWritten) <= 1
          /\ HistoryOnlyAppended
          /\ \A r \in Requests :
                frames[r].pc # "idle" =>
                    /\ frames'[r].query = frames[r].query
                    /\ frames'[r].script = frames[r].script]_vars

\* C13 witness: two calls with different queries and different provider
\* responses were both under way in the loop, and both have returned
C13_Witness ==
    /\ \A r \in Requests : frames[r].pc = "done"
    /\ frames[1].query # frames[2].query
    /\ frames[1].script # frames[2].script
    /\ frames[1].ret.out.kind = "return"
    /\ frames[1].ret.out.value.v.search_timestamp
         # frames[2].ret.out.value.v.search_timestamp

----------------------------------------------------------------------------
(* api_server: the two search endpoints, each request handled as a whole.   *)
(* `http` holds how many requests were served and the latest of them: the   *)
(* request, what the underlying search came to, the provider invocations of  *)
(* the category functions it called, and the response.                      *)

\* the attributes that __init__ gives the instance
InstanceAttributes == {"groq_llm", "gemini_llm", "search_history"}

\* str(e) of the AttributeError that reading a missing attribute raises
AttributeError(name) ==
    Exc("AttributeError",
        "'HotelKnowledgeDeepSearch' object has no attribute '" \o name \o "'")

\* deep_search.<name> for a data attribute: the instance has gained none
\* since __init__, search_history is the only one the model needs the value of
ReadAttribute(name, history) ==
    IF name \in InstanceAttributes
    THEN Return(PyList(history))
    ELSE Raise(AttributeError(name))

\* the number in search_layers of the method that getattr(deep_search,
\* name, None) finds, or 0 for None
GetLayerFunc(name) ==
    IF \E n \in 1..NumLayers : search_layers[n] = name
    THEN CHOOSE n \in 1..NumLayers : search_layers[n] = name
    ELSE 0

\* the keys of layer_functions of specific_layer_search, in order; the n-th
\* is bound to the n-th function of search_layers
layer_functions == <<"booking", "financial", "guest", "staff", "policies">>

\* str(list(layer_functions.keys()))
LayerFunctionsRepr == "['booking', 'financial', 'guest', 'staff', 'policies']"

\* the releases of starlette differ in str() of an HTTPException: those with
\* HTTPException.__str__ give "<status_code>: <detail>", the earlier ones ""
StarletteReleases == {"with __str__", "without __str__"}

HTTPException(status_code, detail) ==
    [type |-> "HTTPException", status_code |-> status_code, detail |-> detail]

\* str(e) for an HTTPException e
HTTPExceptionStr(e, starlette) ==
    IF starlette = "with __str__"
    THEN ToString(e.status_code) \o ": " \o e.detail
    ELSE ""

\* str(e) for whatever the handlers catch
StrOf(e, starlette) ==
    IF e.type = "HTTPException" THEN HTTPExceptionStr(e, starlette) ELSE e.msg

\* the response FastAPI makes of an HTTPException that leaves a handler
ErrorResponse(e) ==
    [status_code |-> e.status_code, body |-> PyDict([detail |-> PyStr(e.detail)])]

\* the response FastAPI makes of what a handler returns
OkResponse(body) == [status_code |-> 200, body |-> body]

\* except Exception as e: raise HTTPException(status_code=500, detail=str(e))
\* around the body of a handler, whose outcome is out
CatchAll(out, starlette) ==
    IF out.kind = "raise"
    THEN ErrorResponse(HTTPException(500, StrOf(out.exc, starlette)))
    ELSE OkResponse(out.value)

\* the search_layers of a SearchRequest: None, or a list of names
LayerLists ==
    {PyNone, PyList(<<>>), PyList(<<"booking">>),
     PyList(<<"booking_data", "guest">>),
     PyList(<<"booking", "financial", "guest", "staff", "policies">>)}

\* bool(search_request.search_layers)
Truthy(x) == x.t = "list" /\ Len(x.v) > 0

\* the custom layer search after its k-th layer, r being what layer_func
\* came to; acc is [out, calls] so far
RECURSIVE CustomLayers(_, _, _, _, _)
CustomLayerDone(layers, k, q, script, acc, r) ==
    IF r.out.kind = "raise"
    THEN [out |-> r.out, calls |-> acc.calls \o r.calls]
    ELSE CustomLayers(layers, k + 1, q, script,
             [out |-> Return(DictSet(acc.out.value, "custom_" \o layers[k],
                                     r.out.value)),
              calls |-> acc.calls \o r.calls])

\* lines 90-94: the loop over search_request.search_layers from its k-th
\* entry on
CustomLayers(layers, k, q, script, acc) ==
    IF k > Len(layers) THEN acc
    ELSE IF GetLayerFunc("_search_" \o layers[k]) = 0
         THEN CustomLayers(layers, k + 1, q, script, acc)
    ELSE CustomLayerDone(layers, k, q, script, acc,
             CallLayer(GetLayerFunc("_search_" \o layers[k]), q,
                       script[k].groq, script[k].gemini))

\* lines 88-97: the search of deep_search_endpoint, as [out, calls, full]
ExecuteDeepSearch(search_request, script, now) ==
    IF Truthy(search_request.search_layers)
    THEN [full |-> FALSE] @@
         CustomLayers(search_request.search_layers.v, 1, search_request.query,
                      script, [out |-> Return(EmptyDict), calls |-> <<>>])
    ELSE [full |-> TRUE, calls |-> <<>>,
          out |-> deep_search_hotel_data(search_request.query, script, now)]

\* dict.get(key, default)
DictGet(d, key, default) == IF HasKey(d, key) THEN d.v[key] ELSE default

\* lines 101-107: SearchResponse(...), whose arguments are evaluated first,
\* attr being what deep_search.results came to
SearchResponse(search_request, res, attr) ==
    IF attr.kind = "raise" THEN attr
    ELSE Return(PyDict([
            status |-> PyStr("success"),
            query |-> PyStr(search_request.query),
            results |-> res,
            timestamp |-> DictGet(attr.value, "search_timestamp", PyStr("")),
            processing_time |-> PyStr("processing_time")]))

\* lines 84-107: the body of the try of deep_search_endpoint after the search
DeepSearchBody(search_request, search, history) ==
    IF search.out.kind = "raise" THEN search.out
    ELSE SearchResponse(search_request, search.out.value,
                        ReadAttribute("results", history))

\* lines 127-131: the check of layer_name
CheckLayerName(layer_name) ==
    IF \E n \in 1..Len(layer_functions) : layer_functions[n] = layer_name
    THEN Return(CHOOSE n \in 1..Len(layer_functions) : layer_functions[n] = layer_name)
    ELSE Raise(HTTPException(400,
             "Invalid layer: " \o layer_name \o ". Available: " \o LayerFunctionsRepr))

\* lines 133-140: the call of the layer's function, r, and the dict returned
LayerSearchBody(layer_name, q, r, attr) ==
    IF r.out.kind = "raise" THEN r.out
    ELSE IF attr.kind = "raise" THEN attr
    ELSE Return(PyDict([
            layer |-> PyStr(layer_name),
            query |-> PyStr(q),
            result |-> r.out.value,
            timestamp |-> DictGet(attr.value, "search_timestamp", PyStr(""))]))

\* lines 117-140: the body of the try of specific_layer_search, as
\* [out, calls], checked being what the check of layer_name came to
LayerSearch(layer_name, q, step, history, checked) ==
    IF checked.kind = "raise"
    THEN [out |-> checked, calls |-> <<>>]
    ELSE [out |-> LayerSearchBody(layer_name, q,
                      CallLayer(checked.value, q, step.groq, step.gemini),
                      ReadAttribute("results", history)),
          calls |-> CallLayer(checked.value, q, step.groq, step.gemini).calls]

\* the layer_name path parameters tried
LayerNames == {"booking", "policies", "rooms", "booking_data"}

InitApi ==
    /\ http = [served |-> 0, last |-> NoRecord]
    /\ search_history = <<>>
    /\ clock = 0
    /\ pc = "idle"
    /\ query = ""
    /\ i = 0
    /\ results = EmptyDict
    /\ exec = NoRecord
    /\ synth = NoRecord
    /\ ret = NoRecord
    /\ completed = 0
    /\ both_raised = {}
    /\ all_success = TRUE
    /\ norm = NoRecord
    /\ frames = NoRecord
    /\ mock = NoRecord

\* POST /deep-search answered, search being what its search came to
DeepSearchAnswered(search_request, search, starlette) ==
    /\ http' = [served |-> http.served + 1,
                last |-> [valid |-> TRUE,
                          endpoint |-> "/deep-search",
                          request |-> search_request,
                          search |-> search,
                          response |-> CatchAll(
                              DeepSearchBody(search_request, search, search_history),
                              starlette)]]
    /\ clock' = IF search.full THEN clock + 1 ELSE clock
    /\ UNCHANGED <<search_history, pc, query, i, results, exec, synth, ret,
                   completed, both_raised, all_success, norm, frames, mock>>

\* lines 77-111: POST /deep-search
deep_search_endpoint(search_request, script, starlette) ==
    /\ http.served < MaxCalls
    /\ DeepSearchAnswered(search_request,
                          ExecuteDeepSearch(search_request, script, clock + 1),
                          starlette)

\* GET /search-layer/{layer_name} answered, search being what it came to
LayerSearchAnswered(layer_name, q, search, starlette) ==
    /\ http' = [served |-> http.served + 1,
                last |-> [valid |-> TRUE,
                          endpoint |-> "/search-layer",
                          request |-> [layer_name |-> layer_name, query |-> q],
                          search |-> search,
                          response |-> CatchAll(search.out, starlette)]]
    /\ UNCHANGED <<search_history, clock, pc, query, i, results, exec, synth, ret,
                   completed, both_raised, all_success, norm, frames, mock>>

\* lines 113-143: GET /search-layer/{layer_name}?query=q
specific_layer_search(layer_name, q, step, starlette) ==
    /\ http.served < MaxCalls
    /\ LayerSearchAnswered(layer_name, q,
                           LayerSearch(layer_name, q, step, search_history,
                                       CheckLayerName(layer_name)),
                           starlette)

NextApi ==
    \/ \E q \in Queries, layers \in LayerLists, script \in Scripts,
          starlette \in StarletteReleases :
            deep_search_endpoint([query |-> q, search_layers |-> layers],
                                 script, starlette)
    \/ \E layer_name \in LayerNames, q \in Queries \cup {""}, script \in Scripts,
          starlette \in StarletteReleases :
            specific_layer_search(layer_name, q, script[1], starlette)

SpecApi == InitApi /\ [][NextApi]_vars

\* the latest request was to the endpoint
Served(endpoint) == http.last.valid /\ http.last.endpoint = endpoint

\* C15: a POST /deep-search whose underlying search returned, nested errors
\* or not, is answered with a success response that carries the results,
\* never with a 5xx failure.
C15_DeepSearchAnsweredWithResults ==
    (Served("/deep-search") /\ http.last.search.out.kind = "return") =>
        /\ http.last.response.status_code = 200
        /\ DictGet(http.last.response.body, "status", PyNone) = PyStr("success")
        /\ DictGet(http.last.response.body, "results", PyNone)
             = http.last.search.out.value

\* C20: a GET /search-layer/{layer_name} whose layer_name is none of booking,
\* financial, guest, staff, policies is answered with status 400 and a detail
\* that says 'Invalid layer', and no provider is invoked.
C20_InvalidLayerAnswered400 ==
    (Served("/search-layer")
        /\ http.last.request.layer_name
             \notin {"booking", "financial", "guest", "staff", "policies"}) =>
        /\ http.last.response.status_code = 400
        /\ Contains(http.last.response.body.v.detail.v, "Invalid layer")
        /\ http.last.search.calls = <<>>

\* the search_layers of the latest POST /deep-search is a non-empty list of
\* names that get_documentation gives as available_layers
DocumentedLayersAsked ==
    /\ Served("/deep-search")
    /\ Truthy(http.last.request.search_layers)
    /\ \A k \in 1..Len(http.last.request.search_layers.v) :
           \E n \in 1..Len(layer_functions) :
              layer_functions[n] = http.last.request.search_layers.v[k]

\* C21: a POST /deep-search whose search_layers lists names of the documented
\* available layers (booking, financial, guest, staff, policies) has the
\* search function of each listed layer invoked with the query, a provider
\* being asked for each, and the result stored under custom_<layer>; the full
\* five-layer search with its synthesis is not run.
C21_DocumentedLayersSearched ==
    DocumentedLayersAsked =>
        /\ ~http.last.search.full
        /\ http.last.search.out.kind = "return"
        /\ \A k \in 1..Len(http.last.request.search_layers.v) :
              HasKey(http.last.search.out.value,
                     "custom_" \o http.last.request.search_layers.v[k])
        /\ Len(http.last.search.calls) >= Len(http.last.request.search_layers.v)

----------------------------------------------------------------------------
(* hotel_ai_server and simple_api: the two http.server programs with mock   *)
(* data.  json.dumps of a response is modelled by the value it serializes.  *)

\* How many requests one run of a mock server answers.
MaxRequests == 3

Servers == {"hotel_ai_server", "simple_api"}

UpperCase == "ABCDEFGHIJKLMNOPQRSTUVWXYZ"
LowerCase == "abcdefghijklmnopqrstuvwxyz"

\* c.lower() for one character
LowerChar(c) ==
    IF \E k \in 1..Len(UpperCase) : Char(UpperCase, k) = c
    THEN Char(LowerCase, CHOOSE k \in 1..Len(UpperCase) : Char(UpperCase, k) = c)
    ELSE c

RECURSIVE LowerFrom(_, _)
\* s[k-1:].lower()
LowerFrom(s, k) ==
    IF k > Len(s) THEN "" ELSE LowerChar(Char(s, k)) \o LowerFrom(s, k + 1)

\* s.lower()
Lower(s) == LowerFrom(s, 1)

\* type(x).__name__
TypeName(x) ==
    CASE x.t = "none" -> "NoneType"
      [] x.t = "str" -> "str"
      [] x.t = "int" -> "int"
      [] x.t = "bool" -> "bool"
      [] x.t = "float" -> "float"
      [] x.t = "list" -> "list"
      [] x.t = "dict" -> "dict"

\* the AttributeError of x.name for a value x that has no such attribute
NoAttribute(x, name) ==
    Exc("AttributeError",
        "'" \o TypeName(x) \o "' object has no attribute '" \o name \o "'")

\* int(None)
IntOfNone ==
    Exc("TypeError",
        "int() argument must be a string, a bytes-like object or a real number, not 'NoneType'")

\* f'{x}' for the values a query can be
Format(x) ==
    CASE x.t = "str" -> x.v
      [] x.t = "int" -> ToString(x.v)
      [] x.t = "none" -> "None"
      [] x.t = "bool" -> IF x.v THEN "True" ELSE "False"
      [] OTHER -> "<" \o TypeName(x) \o ">"

\* any(word in text for word in words)
AnyWordIn(words, text) == \E w \in words : Contains(text, w)

\* the mock entries of a layer, each cut down to its "id" or "type" field
MockEntries(ids) == PyList([k \in 1..Len(ids) |-> PyDict([id |-> PyStr(ids[k])])])

\* one layer of generate_mock_results: its entries when a word matches
AddLayerIf(res, words, text, layer, ids) ==
    IF AnyWordIn(words, text) THEN DictSet(res, layer, MockEntries(ids)) ELSE res

\* lines 254-263 of hotel_ai_server: at least the general entry
GeneralIfEmpty(res, q) ==
    IF DOMAIN res.v = {}
    THEN DictSet(res, "general",
             PyList(<<PyDict([
                 id |-> PyStr("info_001"),
                 type |-> PyStr("general_info"),
                 message |-> PyStr("General information for query: " \o q),
                 confidence |-> PyFloat(75, 100)])>>))
    ELSE res

\* lines 193-265 of hotel_ai_server, query_lower being query.lower()
MockResults(q, query_lower) ==
    GeneralIfEmpty(
        AddLayerIf(
            AddLayerIf(
                AddLayerIf(
                    AddLayerIf(EmptyDict,
                        {"booking", "room", "reserve", "available"}, query_lower,
                        "booking", <<"booking_001", "booking_002">>),
                    {"financial", "revenue", "cost", "price"}, query_lower,
                    "financial", <<"revenue">>),
                {"guest", "customer", "profile"}, query_lower,
                "guest", <<"guest_001">>),
            {"staff", "employee", "schedule"}, query_lower,
            "staff", <<"staff_001">>),
        q)

\* generate_mock_results(query) of hotel_ai_server for a str query
generate_mock_results(q) == MockResults(q, Lower(q))

\* {layer: len(data) for layer, data in results.items() if isinstance(data, list)}
ResultsPerLayer(res) ==
    PyDict([k \in {x \in DOMAIN res.v : res.v[x].t = "list"} |->
                PyInt(Len(res.v[k].v))])

\* the results literal of simple_api, entries cut down as above
SimpleApiResults ==
    PyDict([
        booking |-> PyDict([found |-> PyBool(TRUE),
                            data |-> MockEntries(<<"booking_001">>)]),
        financial |-> PyDict([found |-> PyBool(TRUE),
                              data |-> MockEntries(<<"revenue">>)])])

\* send_json_response(data, status)
send_json_response(data, status) ==
    [status |-> status, content_type |-> "application/json", body |-> data]

\* send_html_response(html)
send_html_response(html) ==
    [status |-> 200, content_type |-> "text/html", body |-> PyStr(html)]

\* send_health_response: hotel_ai_server lists its endpoints too
send_health_response(server, now) ==
    send_json_response(
        PyDict((IF server = "hotel_ai_server"
                THEN [endpoints |-> PyDict([
                         health |-> PyStr("/health"),
                         docs |-> PyStr("/docs"),
                         analytics |-> PyStr("/analytics"),
                         deep_search |-> PyStr("/deep-search")])]
                ELSE <<>>) @@
               [status |-> PyStr("healthy"),
                timestamp |-> PyStr(isoformat(now)),
                api_version |-> PyStr("4.5.0"),
                features |-> PyDict([
                    deep_search_ready |-> PyBool(TRUE),
                    llm_status |-> PyStr("connected"),
                    database_status |-> PyStr("connected"),
                    api_performance |-> PyStr("normal")])]),
        200)

\* send_docs_response: the static page of the server
send_docs_response(server) == send_html_response("<html docs of " \o server \o ">")

\* the metrics reporting how many requests were answered
AnalyticsMetrics_Counting(served, searches) ==
    PyDict([
        total_requests |-> PyInt(served),
        successful_searches |-> PyInt(searches),
        average_response_time |-> PyFloat(0, 10),
        popular_queries |-> PyList(<<>>)])

\* the "metrics" literal of send_analytics_response.  served and searches,
\* the requests and the deep searches answered so far, are not in it: the
\* servers keep no count
AnalyticsMetrics(served, searches) ==
    PyDict([
        total_requests |-> PyInt(0),
        successful_searches |-> PyInt(0),
        average_response_time |-> PyFloat(0, 10),
        popular_queries |-> PyList(<<>>)])

\* send_analytics_response: hotel_ai_server adds uptime and performance
send_analytics_response(server, now, served, searches) ==
    send_json_response(
        PyDict((IF server = "hotel_ai_server"
                THEN [performance |-> PyDict([
                         requests_per_minute |-> PyInt(0),
                         error_rate |-> PyFloat(0, 10),
                         cache_hit_rate |-> PyFloat(0, 10)])]
                ELSE <<>>) @@
               [status |-> PyStr("active"),
                timestamp |-> PyStr(isoformat(now)),
                metrics |-> AnalyticsMetrics(served, searches),
                system |-> PyDict(
                    (IF server = "hotel_ai_server"
                     THEN [uptime |-> PyStr("0h 0m")]
                     ELSE <<>>) @@
                    [cpu_usage |-> PyStr("low"),
                     memory_usage |-> PyStr("normal"),
                     disk_space |-> PyStr("available")])]),
        200)

\* send_404: hotel_ai_server stamps it
send_404(server, now) ==
    send_json_response(
        PyDict((IF server = "hotel_ai_server"
                THEN [timestamp |-> PyStr(isoformat(now))]
                ELSE <<>>) @@
               [status |-> PyStr("error"),
                message |-> PyStr("Endpoint not found"),
                available_endpoints |-> PyList(<<
                    PyStr("GET /health"), PyStr("GET /docs"),
                    PyStr("GET /analytics"), PyStr("POST /deep-search")>>)]),
        404)

\* the except branch of send_deep_search_response
DeepSearchError(server, e, now) ==
    send_json_response(
        PyDict((IF server = "hotel_ai_server"
                THEN [error_type |-> PyStr("processing_error")]
                ELSE <<>>) @@
               [status |-> PyStr("error"),
                error |-> PyStr(e.msg),
                timestamp |-> PyStr(isoformat(now))]),
        500)

\* lines 161-179 of hotel_ai_server: the response over the mock results res
HotelAiSearchResponse(q, max_results, res, now) ==
    send_json_response(
        PyDict([
            status |-> PyStr("success"),
            query |-> PyStr(q),
            timestamp |-> PyStr(isoformat(now)),
            processing_time |-> PyFloat(15, 100),
            results |-> res,
            synthesis |-> PyStr("Found " \o ToString(Cardinality(DOMAIN res.v))
                                \o " relevant results for '" \o q
                                \o "'. System analysis complete."),
            confidence |-> PyFloat(92, 100),
            metadata |-> PyDict([
                total_layers_searched |-> PyInt(4),
                results_per_layer |-> ResultsPerLayer(res),
                search_parameters |-> PyDict([
                    max_results |-> max_results,
                    search_type |-> PyStr("deep_search")])])]),
        200)

\* lines 115-150 of simple_api: the response, the same for every query
SimpleApiSearchResponse(query_value, now) ==
    send_json_response(
        PyDict([
            status |-> PyStr("success"),
            query |-> query_value,
            timestamp |-> PyStr(isoformat(now)),
            processing_time |-> PyFloat(15, 100),
            results |-> SimpleApiResults,
            synthesis |-> PyStr("Found relevant results for '" \o Format(query_value)
                                \o "'. Room 101 is available tomorrow for 2,500 THB."),
            confidence |-> PyFloat(92, 100)]),
        200)

\* the try of send_deep_search_response from data.get('query', '') on,
\* for a dict data
DeepSearchOfDict(server, data, query_value, now) ==
    IF server = "simple_api" THEN SimpleApiSearchResponse(query_value, now)
    ELSE IF query_value.t # "str"
         THEN DeepSearchError(server, NoAttribute(query_value, "lower"), now)
    ELSE HotelAiSearchResponse(query_value.v,
                               DictGet(data, "max_results", PyInt(20)),
                               generate_mock_results(query_value.v), now)

\* the try of send_deep_search_response after json.loads came to parsed
DeepSearchOfParsed(server, parsed, now) ==
    IF parsed.kind = "raise" THEN DeepSearchError(server, parsed.exc, now)
    ELSE IF parsed.value.t # "dict"
         THEN DeepSearchError(server, NoAttribute(parsed.value, "get"), now)
    ELSE DeepSearchOfDict(server, parsed.value,
                          DictGet(parsed.value, "query", PyStr("")), now)

\* send_deep_search_response: without a Content-Length header int(None)
\* raises; with it the body is read and parsed
send_deep_search_response(server, has_length, body, now) ==
    IF ~has_length THEN DeepSearchError(server, IntOfNone, now)
    ELSE DeepSearchOfParsed(server, json_loads(body), now)

\* do_GET
do_GET(server, path, now, served, searches) ==
    IF path = "/health" THEN send_health_response(server, now)
    ELSE IF path = "/docs" THEN send_docs_response(server)
    ELSE IF path = "/analytics"
         THEN send_analytics_response(server, now, served, searches)
    ELSE send_404(server, now)

\* do_POST
do_POST(server, path, has_length, body, now) ==
    IF path = "/deep-search"
    THEN send_deep_search_response(server, has_length, body, now)
    ELSE send_404(server, now)

\* whether the handler of the response read the clock
ReadsClock(response) == HasKey(response.body, "timestamp")

GetPaths == {"/health", "/docs", "/analytics", "/nowhere"}
PostPaths == {"/deep-search", "/analytics"}

\* the bodies posted: queries that match layers, one that matches none, an
\* object with no query, a query that is no string, JSON that is no object,
\* and text that is no JSON
Bodies ==
    {"{\"query\":\"booking room 101 tomorrow\"}",
     "{\"query\":\"Guest profile and staff\",\"max_results\":5}",
     "{\"query\":\"weather\"}",
     "{}", "{\"query\":5}", "null", "hello"}

InitMock ==
    /\ \E server \in Servers :
          mock = [server |-> server, served |-> 0, searches |-> 0, last |-> NoRecord]
    /\ search_history = <<>>
    /\ clock = 0
    /\ pc = "idle"
    /\ query = ""
    /\ i = 0
    /\ results = EmptyDict
    /\ exec = NoRecord
    /\ synth = NoRecord
    /\ ret = NoRecord
    /\ completed = 0
    /\ both_raised = {}
    /\ all_success = TRUE
    /\ norm = NoRecord
    /\ frames = NoRecord
    /\ http = NoRecord

\* the request answered with the response
Answered(request, response) ==
    /\ mock' = [server |-> mock.server,
                served |-> mock.served + 1,
                searches |-> IF request.method = "POST" /\ response.status = 200
                             THEN mock.searches + 1 ELSE mock.searches,
                last |-> [valid |-> TRUE, request |-> request, response |-> response]]
    /\ clock' = IF ReadsClock(response) THEN clock + 1 ELSE clock
    /\ UNCHANGED <<search_history, pc, query, i, results, exec, synth, ret,
                   completed, both_raised, all_success, norm, frames, http>>

\* a GET request handled
Get(path) ==
    /\ mock.served < MaxRequests
    /\ Answered([method |-> "GET", path |-> path],
                do_GET(mock.server, path, clock + 1, mock.served, mock.searches))

\* a POST request handled
Post(path, has_length, body) ==
    /\ mock.served < MaxRequests
    /\ Answered([method |-> "POST", path |-> path, has_length |-> has_length,
                 body |-> body],
                do_POST(mock.server, path, has_length, body, clock + 1))

NextMock ==
    \/ \E path \in GetPaths : Get(path)
    \/ \E path \in PostPaths, has_length \in BOOLEAN, body \in Bodies :
          Post(path, has_length, body)

SpecMock == InitMock /\ [][NextMock]_vars

\* a response body without its timestamp
WithoutTimestamp(body) ==
    PyDict([k \in DOMAIN body.v \ {"timestamp"} |-> body.v[k]])

\* what GET /analytics reports for the counts served and searches
AnalyticsReport(served, searches) ==
    WithoutTimestamp(
        send_analytics_response(mock.server, 0, served, searches).body)

\* the latest request was GET /analytics
AnalyticsServed ==
    /\ mock.last.valid
    /\ mock.last.request.method = "GET"
    /\ mock.last.request.path = "/analytics"

\* C19: in hotel_ai_server and simple_api, whatever requests were answered
\* before, GET /analytics reports total_requests 0 and successful_searches 0
\* and otherwise the same values as at the start, the timestamp apart: no
\* request handler changes what a later analytics request reports.
C19_AnalyticsStatic ==
    /\ AnalyticsReport(mock.served, mock.searches) = AnalyticsReport(0, 0)
    /\ AnalyticsServed =>
         /\ mock.last.response.status = 200
         /\ mock.last.response.body.v.metrics.v.total_requests = PyInt(0)
         /\ mock.last.response.body.v.metrics.v.successful_searches = PyInt(0)
         /\ WithoutTimestamp(mock.last.response.body) = AnalyticsReport(0, 0)

\* C19 witness: analytics was asked for after two deep searches had been
\* answered with results
C19_Witness ==
    /\ AnalyticsServed
    /\ mock.searches = 2
    /\ mock.served = 3
    /\ mock.last.response.body.v.metrics.v.successful_searches = PyInt(0)
====
